---- MODULE Spec2Model ----
(***************************************************************************)
(* Cart providers of the dashboard:                                        *)
(*   - the per-user provider   src/src/context/CartContext.js              *)
(*   - the session provider    src/unnamed/part_000                        *)
(*   - the backend provider    src/unnamed/part_001, and the cart service  *)
(*     it calls                src/src/services/cartService.js             *)
(* Definitions of the session provider carry the suffix _s, those of the   *)
(* backend provider the suffix _b.                                         *)
(*                                                                         *)
(* Amounts.  A JavaScript number holding an amount is modelled by its      *)
(* exact decimal value, as an integer count of 1/10000 of a currency unit  *)
(* (one cent = 100 units).  Prices are whole cents and discount            *)
(* percentages whole numbers, so price * discountPercentage / 100 is an    *)
(* exact integer of units.  taxableAmount * 0.16 is kept exactly as a      *)
(* numerator over 100.  toFixed(2) rounds the exact value, half away from  *)
(* zero.                                                                   *)
(*                                                                         *)
(* undefined.  A property that may hold undefined is modelled as a         *)
(* sequence: <<>> is undefined, <<n>> the number n.                        *)
(***************************************************************************)
EXTENDS Integers, Sequences, FiniteSets, TLC

VARIABLES
  provider,   \* which CartProvider is mounted: "user", "session" or "backend"
  user,       \* useAuth().user: NoUser or a user id
  cart,       \* the React state `cart` of the provider
  view,       \* what the handlers of the last render closed over: [user, cart]
  storage,    \* sessionStorage: key -> <<>> (no entry) or <<JSON document>>
  lastOp,     \* history: the last call made on the provider, its arguments and
              \* the cart its handler read (before)
  backend,    \* the cart the REST API holds for the signed-in user
  calls,      \* the async handlers of the backend provider that have not
              \* settled: slot -> Idle or [op, pc, arg, data]
  breakdown,  \* a call of the cart service's tax breakdown: its subtotal, the
              \* function applied (of) and what it returned (result)
  pendingEffect,  \* the provider rendered with another user and its effect on
                  \* [user] has not run yet
  isCheckingOut,  \* cart page: React state isCheckingOut
  checkoutError,  \* cart page: React state checkoutError, <<>> for null
  pressed,        \* history: the last button pressed on the cart page
  loading,        \* Receive Purchases page: React state loading
  requests,       \* Receive Purchases page: the requests in flight
  modal           \* Receive Purchases page: isModalVisible, actionType and
                  \* selectedPurchase

vars == <<provider, user, cart, view, storage, lastOp, backend, calls, breakdown,
          pendingEffect, isCheckingOut, checkoutError, pressed, loading, requests, modal>>

\* the state of the pages and of the pending effect, left alone
Elsewhere == UNCHANGED <<pendingEffect, isCheckingOut, checkoutError, pressed, loading, requests, modal>>

----------------------------------------------------------------------------
(* Bounds and input sets *)

MaxStock == 2
MaxQuantity == 2
MaxCalls == 2             \* async handlers in flight at a time
MaxSubtotalCents == 150   \* largest tax-inclusive subtotal broken down, in cents
MaxRequests == 2          \* requests of the Receive Purchases page in flight at a time

Unit == 100 * 100
Undefined == <<>>
NoUser == "none"
Users == {"A"}

TAX_RATE_PCT == 16
TAX_RATE == 16            \* 0.16 of the cart service, in percent

\* product descriptors the product list can hand to addToCart; product 1 is
\* listed with two prices (it was repriced and given a discount)
Catalogue ==
  { [id |-> 1, price |-> Unit \div 10, discountPercentage |-> Undefined, quantity_in_stock |-> <<MaxStock>>],
    [id |-> 1, price |-> Unit,         discountPercentage |-> <<60>>,    quantity_in_stock |-> <<MaxStock>>],
    [id |-> 2, price |-> Unit \div 10, discountPercentage |-> <<4>>,     quantity_in_stock |-> <<MaxStock - 1>>],
    [id |-> 2, price |-> Unit \div 10, discountPercentage |-> <<4>>,     quantity_in_stock |-> <<0>>],
    [id |-> 2, price |-> Unit \div 10, discountPercentage |-> <<4>>,     quantity_in_stock |-> Undefined] }

ProductIds == {p.id : p \in Catalogue}
Ids == ProductIds \cup {3}          \* 3: an id that never has a line
Quantities == 0..MaxQuantity
NewQuantities == -1..MaxQuantity    \* updateQuantity's newQuantity, below 1 included

\* the products of the specification's worked scenarios: 100.00 at 10 %, and
\* 50.00 at 20 %
GoldenCatalogue ==
  { [id |-> 1, price |-> Unit * 100, discountPercentage |-> <<10>>, quantity_in_stock |-> <<MaxStock>>],
    [id |-> 2, price |-> Unit * 50,  discountPercentage |-> <<20>>, quantity_in_stock |-> <<MaxStock + 1>>] }
GoldenQuantities == 1..(MaxStock + 1)

----------------------------------------------------------------------------
(* JavaScript helpers *)

\* { ...a, ...b }
Spread(a, b) == [k \in DOMAIN a \cup DOMAIN b |-> IF k \in DOMAIN b THEN b[k] ELSE a[k]]

\* obj.key, undefined when the object has no such key
Get(obj, key) == IF key \in DOMAIN obj THEN obj[key] ELSE Undefined

\* (v || 0) for a property holding a number or undefined
OrZero(v) == IF v = Undefined THEN 0 ELSE v[1]

\* the keys of a line item whose value may be undefined
OptionalKeys == {"discountPercentage", "stock"}

\* JSON.stringify drops the keys of an object whose value is undefined
JSONstringify(c) ==
  [k \in DOMAIN c |->
     IF k = "items"
       THEN [i \in DOMAIN c.items |->
               LET it == c.items[i]
                   kept == {f \in DOMAIN it : ~(f \in OptionalKeys /\ it[f] = Undefined)}
               IN [f \in kept |-> it[f]]]
       ELSE c[k]]

\* JSON.parse of a document written by JSON.stringify.  A document is held as
\* the value its text denotes, so parsing returns it; what the round trip
\* loses (the keys that held undefined) is lost in JSONstringify, and a parsed
\* line item is read with Get
JSONparse(doc) == doc

\* Number.prototype.toFixed(2) followed by parseFloat, of the exact value n/d
\* units: nearest cent, ties away from zero; the result is in units
toFixed2(n, d) ==
  LET cent == 100 * d
      a == IF n < 0 THEN -n ELSE n
      q == a \div cent
      r == a % cent
      m == IF 2 * r >= cent THEN q + 1 ELSE q
  IN (IF n < 0 THEN -1 ELSE 1) * m * 100

RECURSIVE Sum(_)
\* nums.reduce((sum, n) => sum + n, 0)
Sum(nums) == IF nums = <<>> THEN 0 ELSE Sum(SubSeq(nums, 1, Len(nums) - 1)) + nums[Len(nums)]

\* items.find(item => item.id === id): <<>> or <<the first such item>>
Find(items, id) ==
  LET hits == {i \in DOMAIN items : items[i].id = id}
  IN IF hits = {} THEN <<>> ELSE <<items[CHOOSE i \in hits : \A j \in hits : i <= j]>>

RECURSIVE FilterNotId(_, _)
\* items.filter(item => item.id !== id)
FilterNotId(items, id) ==
  IF items = <<>> THEN <<>>
  ELSE IF Head(items).id # id
         THEN <<Head(items)>> \o FilterNotId(Tail(items), id)
         ELSE FilterNotId(Tail(items), id)

----------------------------------------------------------------------------
(* Per-user provider, src/src/context/CartContext.js *)

getEmptyCart == [items |-> <<>>, subtotal |-> 0, discount |-> 0, tax |-> 0, total |-> 0]

userCartKey(u) == "cart_" \o u

Keys == {userCartKey(u) : u \in Users} \cup {"cart"}

getCartFromStorage(u, st) ==
  IF u = NoUser THEN getEmptyCart
  ELSE LET cartData == st[userCartKey(u)]
       IN IF cartData # <<>> THEN JSONparse(cartData[1]) ELSE getEmptyCart

\* variant: without a user the cart is written under the key "cart"
saveCartToStorage_anonymousToo(u, st, c) ==
  IF u # NoUser THEN [st EXCEPT ![userCartKey(u)] = <<JSONstringify(c)>>]
  ELSE [st EXCEPT !["cart"] = <<JSONstringify(c)>>]

saveCartToStorage(u, st, c) ==
  IF u # NoUser THEN [st EXCEPT ![userCartKey(u)] = <<JSONstringify(c)>>] ELSE st

\* variant: the total is taken from the undiscounted sum of the lines
calculateCartTotals_totalIgnoresDiscount(items) ==
  LET subtotal == Sum([i \in DOMAIN items |-> items[i].price * items[i].quantity])
      discount == Sum([i \in DOMAIN items |-> OrZero(<<items[i].discountAmount>>) * items[i].quantity])
      taxableAmount == subtotal - discount
      tax == taxableAmount * TAX_RATE_PCT
      total == subtotal * 100 + tax
  IN [preTaxAmount |-> toFixed2(subtotal, 1),
      subtotal |-> toFixed2(taxableAmount, 1),
      discount |-> toFixed2(discount, 1),
      tax |-> toFixed2(tax, 100),
      total |-> toFixed2(total, 100)]

calculateCartTotals(items) ==
  LET subtotal == Sum([i \in DOMAIN items |-> items[i].price * items[i].quantity])
      discount == Sum([i \in DOMAIN items |-> OrZero(<<items[i].discountAmount>>) * items[i].quantity])
      taxableAmount == subtotal - discount
      tax == taxableAmount * TAX_RATE_PCT          \* numerator over 100
      total == taxableAmount * 100 + tax           \* numerator over 100
  IN [preTaxAmount |-> toFixed2(subtotal, 1),
      subtotal |-> toFixed2(taxableAmount, 1),
      discount |-> toFixed2(discount, 1),
      tax |-> toFixed2(tax, 100),
      total |-> toFixed2(total, 100)]

\* variant: the totals are computed from the items of the cart in the closure
updateCart_totalsOfOldItems(newCart) ==
  LET cartWithTotals == Spread(newCart, calculateCartTotals(view.cart.items))
  IN /\ cart' = cartWithTotals
     /\ storage' = saveCartToStorage(view.user, storage, cartWithTotals)

\* updateCart: setCart(cartWithTotals); saveCartToStorage(cartWithTotals)
updateCart(newCart) ==
  LET cartWithTotals == Spread(newCart, calculateCartTotals(newCart.items))
  IN /\ cart' = cartWithTotals
     /\ storage' = saveCartToStorage(view.user, storage, cartWithTotals)

\* variant: a missing stock value counts as one in stock
productStockOf_missingIsOne(product) ==
  IF product.quantity_in_stock = Undefined THEN 1 ELSE product.quantity_in_stock[1]

productStockOf(product) == OrZero(product.quantity_in_stock)

discountAmountOf(product) ==
  IF OrZero(product.discountPercentage) # 0
    THEN (product.price * product.discountPercentage[1]) \div 100
    ELSE 0

\* variant: the stock check compares the requested quantity alone
addToCartReturns_requestedOnly(c, product, quantity) ==
  LET productStock == productStockOf(product)
      existingItem == Find(c.items, product.id)
  IN \/ productStock < 1
     \/ /\ existingItem # <<>>
        /\ quantity > productStock

\* the two early returns of addToCart
addToCartReturns(c, product, quantity) ==
  LET productStock == productStockOf(product)
      existingItem == Find(c.items, product.id)
  IN \/ productStock < 1
     \/ /\ existingItem # <<>>
        /\ existingItem[1].quantity + quantity > productStock

\* variant: a merge overwrites the quantity of the line
addToCartItems_overwrites(c, product, quantity) ==
  LET existingItem == Find(c.items, product.id)
      discountAmount == discountAmountOf(product)
  IN IF existingItem # <<>>
       THEN [i \in DOMAIN c.items |->
               IF c.items[i].id = product.id
                 THEN Spread(c.items[i],
                             [quantity |-> quantity,
                              discountPercentage |-> product.discountPercentage,
                              discountAmount |-> discountAmount])
                 ELSE c.items[i]]
       ELSE Append(c.items,
                   [id |-> product.id,
                    price |-> product.price,
                    quantity |-> quantity,
                    discountPercentage |-> product.discountPercentage,
                    discountAmount |-> discountAmount,
                    stock |-> product.quantity_in_stock])

\* variant: a line is appended whether or not the product has one
addToCartItems_appends(c, product, quantity) ==
  Append(c.items,
         [id |-> product.id,
          price |-> product.price,
          quantity |-> quantity,
          discountPercentage |-> product.discountPercentage,
          discountAmount |-> discountAmountOf(product),
          stock |-> product.quantity_in_stock])

\* updatedItems of addToCart
addToCartItems(c, product, quantity) ==
  LET existingItem == Find(c.items, product.id)
      discountAmount == discountAmountOf(product)
  IN IF existingItem # <<>>
       THEN [i \in DOMAIN c.items |->
               IF c.items[i].id = product.id
                 THEN Spread(c.items[i],
                             [quantity |-> c.items[i].quantity + quantity,
                              discountPercentage |-> product.discountPercentage,
                              discountAmount |-> discountAmount])
                 ELSE c.items[i]]
       ELSE Append(c.items,
                   [id |-> product.id,
                    price |-> product.price,
                    quantity |-> quantity,
                    discountPercentage |-> product.discountPercentage,
                    discountAmount |-> discountAmount,
                    stock |-> product.quantity_in_stock])

addToCart(product, quantity) ==
  /\ provider = "user"
  /\ IF addToCartReturns(view.cart, product, quantity)
       THEN UNCHANGED <<cart, storage>>
       ELSE updateCart([items |-> addToCartItems(view.cart, product, quantity)])
  /\ lastOp' = [before |-> view.cart, op |-> "addToCart", product |-> product, quantity |-> quantity]
  /\ UNCHANGED <<provider, user>>

\* variant: the first line is dropped, whatever its id
removeFromCartItems_dropsFirst(c, id) ==
  IF c.items = <<>> THEN <<>> ELSE Tail(c.items)

removeFromCartItems(c, id) == FilterNotId(c.items, id)

removeFromCart(id) ==
  /\ provider = "user"
  /\ updateCart([items |-> removeFromCartItems(view.cart, id)])
  /\ lastOp' = [before |-> view.cart, op |-> "removeFromCart", id |-> id]
  /\ UNCHANGED <<provider, user>>

\* variant: only a negative newQuantity removes the line
updateQuantityItems_zeroKept(c, id, newQuantity) ==
  IF newQuantity < 0
    THEN removeFromCartItems(c, id)
    ELSE [i \in DOMAIN c.items |->
            IF c.items[i].id = id
              THEN Spread(c.items[i], [quantity |-> newQuantity])
              ELSE c.items[i]]

\* variant: every line is given the new quantity
updateQuantityItems_everyLine(c, id, newQuantity) ==
  IF newQuantity < 1
    THEN removeFromCartItems(c, id)
    ELSE [i \in DOMAIN c.items |-> Spread(c.items[i], [quantity |-> newQuantity])]

\* variant: a quantity above the line's recorded stock is refused
updateQuantityItems_stockChecked(c, id, newQuantity) ==
  IF newQuantity < 1
    THEN removeFromCartItems(c, id)
    ELSE [i \in DOMAIN c.items |->
            IF c.items[i].id = id /\ newQuantity <= OrZero(Get(c.items[i], "stock"))
              THEN Spread(c.items[i], [quantity |-> newQuantity])
              ELSE c.items[i]]

updateQuantityItems(c, id, newQuantity) ==
  IF newQuantity < 1
    THEN removeFromCartItems(c, id)
    ELSE [i \in DOMAIN c.items |->
            IF c.items[i].id = id
              THEN Spread(c.items[i], [quantity |-> newQuantity])
              ELSE c.items[i]]

updateQuantity(id, newQuantity) ==
  /\ provider = "user"
  /\ updateCart([items |-> updateQuantityItems(view.cart, id, newQuantity)])
  /\ lastOp' = [before |-> view.cart, op |-> "updateQuantity", id |-> id, quantity |-> newQuantity]
  /\ UNCHANGED <<provider, user>>

\* variant: the items are emptied and the totals left as they were
clearCart_keepsTotals ==
  /\ provider = "user"
  /\ LET emptyCart == [view.cart EXCEPT !.items = <<>>]
     IN /\ cart' = emptyCart
        /\ storage' = saveCartToStorage(view.user, storage, emptyCart)
  /\ lastOp' = [before |-> view.cart, op |-> "clearCart"]
  /\ UNCHANGED <<provider, user>>

clearCart ==
  /\ provider = "user"
  /\ LET emptyCart == getEmptyCart
     IN /\ cart' = emptyCart
        /\ storage' = saveCartToStorage(view.user, storage, emptyCart)
  /\ lastOp' = [before |-> view.cart, op |-> "clearCart"]
  /\ UNCHANGED <<provider, user>>

\* the auth context hands the provider another user; the provider renders
\* and the effect on [user] runs: setCart(getCartFromStorage()).  Spec keeps
\* the user of a page load fixed, so this action is not a disjunct of Next
userChanges(u) ==
  /\ provider = "user"
  /\ u # user
  /\ user' = u
  /\ cart' = getCartFromStorage(u, storage)
  /\ lastOp' = [before |-> view.cart, op |-> "userChanges", user |-> u]
  /\ UNCHANGED <<provider, storage>>

\* the auth context hands the provider another user and the provider renders
\* with it: the handlers now close over the new user and the cart still in
\* state; the effect on [user] is scheduled
authChanges(u) ==
  /\ provider = "user"
  /\ u # user
  /\ user' = u
  /\ view' = [user |-> u, cart |-> cart]
  /\ pendingEffect' = TRUE
  /\ lastOp' = [before |-> view.cart, op |-> "userChanges", user |-> u]
  /\ UNCHANGED <<provider, cart, storage, backend, calls, breakdown>>
  /\ UNCHANGED <<isCheckingOut, checkoutError, pressed, loading, requests, modal>>

\* the effect on [user] runs: setCart(getCartFromStorage()), and the provider
\* renders again
userEffect ==
  /\ provider = "user"
  /\ pendingEffect
  /\ cart' = getCartFromStorage(view.user, storage)
  /\ view' = [user |-> user, cart |-> cart']
  /\ pendingEffect' = FALSE
  /\ lastOp' = [before |-> view.cart, op |-> "effect"]
  /\ UNCHANGED <<provider, user, storage, backend, calls, breakdown>>
  /\ UNCHANGED <<isCheckingOut, checkoutError, pressed, loading, requests, modal>>

\* the page is loaded again: useState(getEmptyCart()), then the effect
mount ==
  /\ provider = "user"
  /\ cart' = getCartFromStorage(user, storage)
  /\ lastOp' = [before |-> view.cart, op |-> "mount"]
  /\ UNCHANGED <<provider, user, storage>>

----------------------------------------------------------------------------
(* Session provider, src/unnamed/part_000 *)

emptyCart_s == [items |-> <<>>, subtotal |-> 0, discount |-> 0, tax |-> 0, total |-> 0]

getCartFromSession(st) ==
  LET cartData == st["cart"]
  IN IF cartData # <<>> THEN JSONparse(cartData[1]) ELSE emptyCart_s

saveCartToSession(st, c) == [st EXCEPT !["cart"] = <<JSONstringify(c)>>]

calculateCartTotals_s(items) ==
  LET subtotal == Sum([i \in DOMAIN items |-> items[i].price * items[i].quantity])
      discount == Sum([i \in DOMAIN items |-> OrZero(<<items[i].discountAmount>>) * items[i].quantity])
      taxableAmount == subtotal - discount
      tax == taxableAmount * TAX_RATE_PCT          \* numerator over 100
      total == taxableAmount * 100 + tax           \* numerator over 100
  IN [subtotal |-> toFixed2(subtotal, 1),
      discount |-> toFixed2(discount, 1),
      tax |-> toFixed2(tax, 100),
      total |-> toFixed2(total, 100)]

updateCart_s(newCart) ==
  LET cartWithTotals == Spread(newCart, calculateCartTotals_s(newCart.items))
  IN /\ cart' = cartWithTotals
     /\ storage' = saveCartToSession(storage, cartWithTotals)

addToCartReturns_s(c, product, quantity) ==
  LET productStock == OrZero(product.quantity_in_stock)
      existingItem == Find(c.items, product.id)
  IN \/ productStock < 1
     \/ /\ existingItem # <<>>
        /\ existingItem[1].quantity + quantity > productStock

addToCartItems_s(c, product, quantity) ==
  LET existingItem == Find(c.items, product.id)
      discountAmount == IF OrZero(product.discountPercentage) # 0
                          THEN (product.price * product.discountPercentage[1]) \div 100
                          ELSE 0
  IN IF existingItem # <<>>
       THEN [i \in DOMAIN c.items |->
               IF c.items[i].id = product.id
                 THEN Spread(c.items[i],
                             [quantity |-> c.items[i].quantity + quantity,
                              discountPercentage |-> product.discountPercentage,
                              discountAmount |-> discountAmount])
                 ELSE c.items[i]]
       ELSE Append(c.items,
                   [id |-> product.id,
                    price |-> product.price,
                    quantity |-> quantity,
                    discountPercentage |-> product.discountPercentage,
                    discountAmount |-> discountAmount,
                    stock |-> product.quantity_in_stock])

addToCart_s(product, quantity) ==
  /\ provider = "session"
  /\ IF addToCartReturns_s(view.cart, product, quantity)
       THEN UNCHANGED <<cart, storage>>
       ELSE updateCart_s([items |-> addToCartItems_s(view.cart, product, quantity)])
  /\ lastOp' = [before |-> view.cart, op |-> "addToCart", product |-> product, quantity |-> quantity]
  /\ UNCHANGED <<provider, user>>

removeFromCartItems_s(c, id) == FilterNotId(c.items, id)

removeFromCart_s(id) ==
  /\ provider = "session"
  /\ updateCart_s([items |-> removeFromCartItems_s(view.cart, id)])
  /\ lastOp' = [before |-> view.cart, op |-> "removeFromCart", id |-> id]
  /\ UNCHANGED <<provider, user>>

updateQuantityItems_s(c, id, newQuantity) ==
  IF newQuantity < 1
    THEN removeFromCartItems_s(c, id)
    ELSE [i \in DOMAIN c.items |->
            IF c.items[i].id = id
              THEN Spread(c.items[i], [quantity |-> newQuantity])
              ELSE c.items[i]]

updateQuantity_s(id, newQuantity) ==
  /\ provider = "session"
  /\ updateCart_s([items |-> updateQuantityItems_s(view.cart, id, newQuantity)])
  /\ lastOp' = [before |-> view.cart, op |-> "updateQuantity", id |-> id, quantity |-> newQuantity]
  /\ UNCHANGED <<provider, user>>

clearCart_s ==
  /\ provider = "session"
  /\ updateCart_s([items |-> <<>>, subtotal |-> 0, discount |-> 0, tax |-> 0, total |-> 0])
  /\ lastOp' = [before |-> view.cart, op |-> "clearCart"]
  /\ UNCHANGED <<provider, user>>

\* the page is loaded again: useState(getCartFromSession())
mount_s ==
  /\ provider = "session"
  /\ cart' = getCartFromSession(storage)
  /\ lastOp' = [before |-> view.cart, op |-> "mount"]
  /\ UNCHANGED <<provider, user, storage>>

----------------------------------------------------------------------------
(* The cart service, src/src/services/cartService.js *)

\* variant: the tax is taken on top of the subtotal
transformCartData_taxOnTop(cartData) ==
  Spread(cartData,
         [preTaxAmount |-> toFixed2(cartData.subtotal * 100, 100 + TAX_RATE),
          taxAmount    |-> toFixed2(cartData.subtotal * TAX_RATE, 100),
          total        |-> cartData.subtotal])

\* preTaxAmount = subtotal / 1.16 and taxAmount = subtotal - preTaxAmount,
\* which is subtotal * 16 / 116, each rounded by toFixed(2)
transformCartData(cartData) ==
  Spread(cartData,
         [preTaxAmount |-> toFixed2(cartData.subtotal * 100, 100 + TAX_RATE),
          taxAmount    |-> toFixed2(cartData.subtotal * TAX_RATE, 100 + TAX_RATE),
          total        |-> cartData.subtotal])

calculateTaxBreakdown(subtotal) ==
  [preTaxAmount |-> toFixed2(subtotal * 100, 100 + TAX_RATE),
   taxAmount    |-> toFixed2(subtotal * TAX_RATE, 100 + TAX_RATE),
   total        |-> toFixed2(subtotal, 1)]

\* tax-inclusive subtotals in whole cents
Subtotals == {c * (Unit \div 100) : c \in 0..MaxSubtotalCents}
NoBreakdown == [subtotal |-> 0, of |-> "none", result |-> Undefined]

\* transformCartData applied to a response holding the subtotal
callTransformCartData ==
  /\ breakdown.of = "none"
  /\ breakdown' = [subtotal |-> breakdown.subtotal,
                   of       |-> "transformCartData",
                   result   |-> <<transformCartData([items |-> <<>>, subtotal |-> breakdown.subtotal])>>]
  /\ UNCHANGED <<provider, user, cart, view, storage, lastOp, backend, calls>>

\* cartService.calculateTaxBreakdown(subtotal)
callCalculateTaxBreakdown ==
  /\ breakdown.of = "none"
  /\ breakdown' = [subtotal |-> breakdown.subtotal,
                   of       |-> "calculateTaxBreakdown",
                   result   |-> <<calculateTaxBreakdown(breakdown.subtotal)>>]
  /\ UNCHANGED <<provider, user, cart, view, storage, lastOp, backend, calls>>

----------------------------------------------------------------------------
(* The backend provider, src/unnamed/part_001 *)

Slots == 1..MaxCalls
Idle == [op |-> "idle"]

\* useState's initial cart, and the cart checkout sets
emptyCart_b == [items |-> <<>>, subtotal |-> 0, discount |-> 0, tax |-> 0, total |-> 0]

\* what addToCart hands to the provider, and the quantities of updateQuantity
BackendCatalogue ==
  {product \in Catalogue : productStockOf(product) = MaxStock /\ product.discountPercentage = Undefined}
BackendIds == {product.id : product \in BackendCatalogue}
BackendQuantities == {1}

\* The REST API is not part of the repository.  It is taken to keep one line
\* per product, to report the tax-inclusive subtotal of its lines, to refuse
\* what it cannot do, and to close the cart on checkout.
apiCart(items) ==
  [items |-> items,
   subtotal |-> Sum([i \in DOMAIN items |-> items[i].price * items[i].quantity])]

apiHas(id) == \E i \in DOMAIN backend.items : backend.items[i].productId = id

\* the cart of the API after a request, <<>> when the API refuses it
apiServes(c) ==
  CASE c.op = "addToCart" ->
         IF apiHas(c.arg.productId)
           THEN IF \E i \in DOMAIN backend.items :
                     /\ backend.items[i].productId = c.arg.productId
                     /\ backend.items[i].quantity + c.arg.quantity > MaxQuantity
                  THEN <<>>
                  ELSE <<apiCart([i \in DOMAIN backend.items |->
                           IF backend.items[i].productId = c.arg.productId
                             THEN [backend.items[i] EXCEPT !.quantity = @ + c.arg.quantity]
                             ELSE backend.items[i]])>>
           ELSE <<apiCart(Append(backend.items,
                    [productId |-> c.arg.productId, quantity |-> c.arg.quantity, price |-> c.arg.price]))>>
    [] c.op = "updateQuantity" ->
         IF apiHas(c.arg.productId)
           THEN <<apiCart([i \in DOMAIN backend.items |->
                    IF backend.items[i].productId = c.arg.productId
                      THEN [backend.items[i] EXCEPT !.quantity = c.arg.quantity]
                      ELSE backend.items[i]])>>
           ELSE <<>>
    [] c.op = "removeFromCart" ->
         IF apiHas(c.arg.productId)
           THEN <<apiCart(SelectSeq(backend.items, LAMBDA it : it.productId # c.arg.productId))>>
           ELSE <<>>
    [] c.op = "checkout" -> <<apiCart(<<>>)>>

\* an async handler starts, in the first free slot: its first request goes
\* out.  The handlers run once the effect of the first render has started.
starts(slot, op, arg, pc) ==
  /\ provider = "backend"
  /\ calls[slot] = Idle
  /\ \A other \in 1..(slot - 1) : calls[other] # Idle
  /\ (lastOp.op = "mount") <=> (op = "fetchCart")
  /\ calls' = [calls EXCEPT ![slot] = [op |-> op, pc |-> pc, arg |-> arg, data |-> Undefined]]
  /\ lastOp' = [before |-> cart, op |-> op, step |-> "called"]
  /\ view' = [user |-> user, cart |-> cart]
  /\ UNCHANGED <<provider, user, cart, storage, backend, breakdown>>

\* the effect of the first render
fetchCart(slot) == starts(slot, "fetchCart", [none |-> 0], "getCart")

addToCart_b(slot, product, quantity) ==
  starts(slot, "addToCart",
         [productId |-> product.id,
          quantity |-> quantity,
          price |-> product.price,
          discountPercentage |-> OrZero(product.discountPercentage)],
         "request")

updateQuantity_b(slot, productId, newQuantity) ==
  starts(slot, "updateQuantity", [productId |-> productId, quantity |-> newQuantity], "request")

removeFromCart_b(slot, productId) ==
  starts(slot, "removeFromCart", [productId |-> productId], "request")

checkout_b(slot) == starts(slot, "checkout", [none |-> 0], "request")

\* cartService has no applyDiscount: the call throws inside the try, the
\* catch rethrows
applyDiscount ==
  /\ provider = "backend"
  /\ lastOp.op # "mount"
  /\ lastOp' = [before |-> cart, op |-> "applyDiscount", step |-> "rejected"]
  /\ view' = [user |-> user, cart |-> cart]
  /\ UNCHANGED <<provider, user, cart, storage, backend, calls, breakdown>>

\* the API serves the request of a handler
apiResponds(slot) ==
  /\ calls[slot] # Idle
  /\ calls[slot].pc = "request"
  /\ apiServes(calls[slot]) # <<>>
  /\ backend' = apiServes(calls[slot])[1]
  /\ calls' = [calls EXCEPT ![slot].pc = "response"]
  /\ UNCHANGED <<provider, user, cart, view, storage, lastOp, breakdown>>

\* the API serves the GET /cart of fetchCart or syncWithBackend; getCart
\* returns transformCartData(response.data)
apiRespondsGetCart(slot) ==
  /\ calls[slot] # Idle
  /\ calls[slot].pc = "getCart"
  /\ calls' = [calls EXCEPT ![slot].pc = "getCartResponse",
                            ![slot].data = <<transformCartData(backend)>>]
  /\ UNCHANGED <<provider, user, cart, view, storage, lastOp, backend, breakdown>>

\* a request fails: refused by the API, or lost
apiFails(slot) ==
  /\ calls[slot] # Idle
  /\ calls[slot].pc \in {"request", "getCart"}
  /\ calls' = [calls EXCEPT ![slot].pc = IF @ = "request" THEN "error" ELSE "getCartError"]
  /\ UNCHANGED <<provider, user, cart, view, storage, lastOp, backend, breakdown>>

\* await cartService.<op>(...) returned: await syncWithBackend()
syncWithBackend(slot) ==
  /\ calls[slot] # Idle
  /\ calls[slot].pc = "response"
  /\ calls[slot].op # "checkout"
  /\ calls' = [calls EXCEPT ![slot].pc = "getCart"]
  /\ lastOp' = [before |-> cart, op |-> calls[slot].op, step |-> "syncing"]
  /\ view' = [user |-> user, cart |-> cart]
  /\ UNCHANGED <<provider, user, cart, storage, backend, breakdown>>

\* await cartService.getCart() returned: setCart(cartData)
setCartFromBackend(slot) ==
  /\ calls[slot] # Idle
  /\ calls[slot].pc = "getCartResponse"
  /\ cart' = calls[slot].data[1]
  /\ calls' = [calls EXCEPT ![slot] = Idle]
  /\ lastOp' = [before |-> cart, op |-> calls[slot].op, step |-> "resolved"]
  /\ view' = [user |-> user, cart |-> cart']
  /\ UNCHANGED <<provider, user, storage, backend, breakdown>>

\* cartService.getCart() threw: fetchCart and syncWithBackend log and return
getCartFailed(slot) ==
  /\ calls[slot] # Idle
  /\ calls[slot].pc = "getCartError"
  /\ calls' = [calls EXCEPT ![slot] = Idle]
  /\ lastOp' = [before |-> cart, op |-> calls[slot].op, step |-> "resolved, not synced"]
  /\ view' = [user |-> user, cart |-> cart]
  /\ UNCHANGED <<provider, user, cart, storage, backend, breakdown>>

\* variant: the catch empties the cart before it rethrows
rethrows_emptiesCart(slot) ==
  /\ calls[slot] # Idle
  /\ calls[slot].pc = "error"
  /\ cart' = emptyCart_b
  /\ calls' = [calls EXCEPT ![slot] = Idle]
  /\ lastOp' = [before |-> cart, op |-> calls[slot].op, step |-> "rejected"]
  /\ view' = [user |-> user, cart |-> cart']
  /\ UNCHANGED <<provider, user, storage, backend, breakdown>>

\* the handler's own request threw: the catch logs and rethrows
rethrows(slot) ==
  /\ calls[slot] # Idle
  /\ calls[slot].pc = "error"
  /\ calls' = [calls EXCEPT ![slot] = Idle]
  /\ lastOp' = [before |-> cart, op |-> calls[slot].op, step |-> "rejected"]
  /\ view' = [user |-> user, cart |-> cart]
  /\ UNCHANGED <<provider, user, cart, storage, backend, breakdown>>

\* variant: checkout empties the cart whether or not the request succeeded
checkoutReturns_alsoOnError(slot) ==
  /\ calls[slot] # Idle
  /\ calls[slot].pc \in {"response", "error"}
  /\ calls[slot].op = "checkout"
  /\ cart' = emptyCart_b
  /\ calls' = [calls EXCEPT ![slot] = Idle]
  /\ lastOp' = [before |-> cart,
                op     |-> "checkout",
                step   |-> IF calls[slot].pc = "response" THEN "resolved" ELSE "rejected"]
  /\ view' = [user |-> user, cart |-> cart']
  /\ UNCHANGED <<provider, user, storage, backend, breakdown>>

\* await cartService.checkout(checkoutData) returned: setCart of the empty
\* cart, return result
checkoutReturns(slot) ==
  /\ calls[slot] # Idle
  /\ calls[slot].pc = "response"
  /\ calls[slot].op = "checkout"
  /\ cart' = emptyCart_b
  /\ calls' = [calls EXCEPT ![slot] = Idle]
  /\ lastOp' = [before |-> cart, op |-> "checkout", step |-> "resolved"]
  /\ view' = [user |-> user, cart |-> cart']
  /\ UNCHANGED <<provider, user, storage, backend, breakdown>>

----------------------------------------------------------------------------
(* The cart page, src/src/pages/Cart/cart.jsx *)

\* undefined where an id is expected: strictly equal to no line's id, which
\* are the numbers of ProductIds
undefinedId == 0

\* item.productId
productIdOf(item) == IF "productId" \in DOMAIN item THEN item.productId ELSE undefinedId

\* lines the page can show
LineIndexes == 1..Cardinality(ProductIds)

\* the provider and the page render after a handler of the page
PageRendered ==
  /\ view' = [user |-> user', cart |-> cart']
  /\ UNCHANGED <<backend, calls, breakdown, pendingEffect, isCheckingOut, checkoutError, loading, requests, modal>>

\* updateQuantity(item.productId, item.quantity - 1)
pressMinus(i) ==
  /\ i \in DOMAIN view.cart.items
  /\ updateQuantity(productIdOf(view.cart.items[i]), view.cart.items[i].quantity - 1)
  /\ pressed' = [button |-> "-", index |-> i]
  /\ PageRendered

\* updateQuantity(item.productId, item.quantity + 1)
pressPlus(i) ==
  /\ i \in DOMAIN view.cart.items
  /\ view.cart.items[i].quantity < MaxQuantity
  /\ updateQuantity(productIdOf(view.cart.items[i]), view.cart.items[i].quantity + 1)
  /\ pressed' = [button |-> "+", index |-> i]
  /\ PageRendered

\* removeFromCart(item.productId)
pressRemove(i) ==
  /\ i \in DOMAIN view.cart.items
  /\ removeFromCart(productIdOf(view.cart.items[i]))
  /\ pressed' = [button |-> "Remove", index |-> i]
  /\ PageRendered

\* The checkout button, enabled while not checking out and the cart has
\* lines.  Under the backend provider checkout is its async function and the
\* handler waits; the per-user provider's value has no checkout, so the call
\* throws a TypeError inside the try: catch and finally run at once.
handleCheckout(slot) ==
  /\ ~isCheckingOut
  /\ view.cart.items # <<>>
  /\ IF provider = "backend"
       THEN /\ checkout_b(slot)
            /\ isCheckingOut' = TRUE
            /\ checkoutError' = Undefined
       ELSE /\ slot = 1
            /\ isCheckingOut' = FALSE
            /\ checkoutError' = <<"checkout is not a function">>
            /\ lastOp' = [before |-> cart, op |-> "checkout", step |-> "threw"]
            /\ UNCHANGED <<provider, user, cart, view, storage, backend, calls, breakdown>>
  /\ UNCHANGED <<pendingEffect, pressed, loading, requests, modal>>

\* await checkout(checkoutData) returned: alert, then finally
handleCheckoutSucceeded(slot) ==
  /\ checkoutReturns(slot)
  /\ isCheckingOut' = FALSE
  /\ UNCHANGED <<checkoutError, pendingEffect, pressed, loading, requests, modal>>

\* variant: isCheckingOut is reset after the await, not in a finally
handleCheckoutFailed_noFinally(slot) ==
  /\ calls[slot] # Idle
  /\ calls[slot].op = "checkout"
  /\ rethrows(slot)
  /\ checkoutError' = <<"Checkout failed. Please try again.">>
  /\ UNCHANGED <<isCheckingOut, pendingEffect, pressed, loading, requests, modal>>

\* await checkout(checkoutData) threw: catch sets the message, then finally
handleCheckoutFailed(slot) ==
  /\ calls[slot] # Idle
  /\ calls[slot].op = "checkout"
  /\ rethrows(slot)
  /\ checkoutError' = <<"Checkout failed. Please try again.">>
  /\ isCheckingOut' = FALSE
  /\ UNCHANGED <<pendingEffect, pressed, loading, requests, modal>>

----------------------------------------------------------------------------
(* The Receive Purchases page, src/src/pages/Purchase/ReceivePurchases.jsx *)

\* the purchase orders of the table's rows
PurchaseIds == {1, 2}
ActionTypes == {"receive", "cancel"}

\* a request sent and not yet settled, under the first free number
newRequest(kind, id) ==
  [kind |-> kind,
   id   |-> id,
   seq  |-> CHOOSE n \in 1..(MaxRequests + 1) :
              /\ \A r \in requests : r.seq # n
              /\ \A k \in 1..(n - 1) : \E r \in requests : r.seq = k]

\* everything but the page's own state
OffPurchases ==
  UNCHANGED <<provider, user, cart, view, storage, backend, calls, breakdown,
              pendingEffect, isCheckingOut, checkoutError, pressed>>

\* the effect of the first render, and the refetch: setLoading(true), then
\* await getPendingPurchases()
fetchPendingPurchases ==
  /\ lastOp.op = "mount"
  /\ loading' = TRUE
  /\ requests' = requests \cup {newRequest("fetch", Undefined)}
  /\ lastOp' = [before |-> cart, op |-> "fetchPendingPurchases"]
  /\ UNCHANGED modal
  /\ OffPurchases

\* getPendingPurchases settled: setPurchases or message.error, then the
\* finally: setLoading(false)
fetchSettles(r) ==
  /\ r \in requests
  /\ r.kind = "fetch"
  /\ requests' = requests \ {r}
  /\ loading' = FALSE
  /\ UNCHANGED <<modal, lastOp>>
  /\ OffPurchases

\* the eye button of a row; the table is covered while it is loading
handleViewDetails(purchase) ==
  /\ lastOp.op # "mount"
  /\ ~loading
  /\ modal' = [isModalVisible |-> TRUE, actionType |-> Undefined, selectedPurchase |-> <<purchase>>]
  /\ UNCHANGED <<loading, requests, lastOp>>
  /\ OffPurchases

\* the receive or cancel button of a row
handleAction(type, purchase) ==
  /\ lastOp.op # "mount"
  /\ ~loading
  /\ modal' = [isModalVisible |-> TRUE, actionType |-> <<type>>, selectedPurchase |-> <<purchase>>]
  /\ UNCHANGED <<loading, requests, lastOp>>
  /\ OffPurchases

\* the modal's close and Cancel buttons
closeModal ==
  /\ modal.isModalVisible
  /\ modal' = [modal EXCEPT !.isModalVisible = FALSE]
  /\ UNCHANGED <<loading, requests, lastOp>>
  /\ OffPurchases

\* the confirm button, shown with an action type and inert while loading:
\* setLoading(true), then await receivePurchase or cancelPurchase
confirmAction ==
  /\ modal.isModalVisible
  /\ modal.actionType # Undefined
  /\ ~loading
  /\ Cardinality(requests) < MaxRequests
  /\ loading' = TRUE
  /\ requests' = requests \cup {newRequest(modal.actionType[1], modal.selectedPurchase)}
  /\ UNCHANGED <<modal, lastOp>>
  /\ OffPurchases

\* the awaited call returned: message.success, fetchPendingPurchases() is
\* started and not awaited (setLoading(true), request sent), the modal is
\* closed, and the finally runs: setLoading(false)
confirmActionSucceeds(r) ==
  /\ r \in requests
  /\ r.kind \in ActionTypes
  /\ requests' = (requests \ {r}) \cup {[newRequest("fetch", Undefined) EXCEPT !.seq = r.seq]}
  /\ loading' = FALSE
  /\ modal' = [modal EXCEPT !.isModalVisible = FALSE]
  /\ UNCHANGED lastOp
  /\ OffPurchases

\* the awaited call threw: message.error, then the finally
confirmActionFails(r) ==
  /\ r \in requests
  /\ r.kind \in ActionTypes
  /\ requests' = requests \ {r}
  /\ loading' = FALSE
  /\ UNCHANGED <<modal, lastOp>>
  /\ OffPurchases

----------------------------------------------------------------------------
(* Rendering *)

\* the provider re-renders: its handlers close over the current user and cart
Rendered ==
  /\ view' = [user |-> user', cart |-> cart']
  /\ UNCHANGED <<backend, calls, breakdown>>
  /\ Elsewhere

----------------------------------------------------------------------------
\* no page is mounted and no effect is pending
NoPages ==
  /\ pendingEffect = FALSE
  /\ isCheckingOut = FALSE
  /\ checkoutError = Undefined
  /\ pressed = [button |-> "none"]
  /\ loading = FALSE
  /\ requests = {}
  /\ modal = [isModalVisible |-> FALSE, actionType |-> Undefined, selectedPurchase |-> Undefined]

Init ==
  /\ NoPages
  /\ provider \in {"user", "session"}
  /\ user \in IF provider = "user" THEN Users \cup {NoUser} ELSE {NoUser}
  /\ storage = [k \in Keys |-> <<>>]
  /\ cart = IF provider = "user" THEN getEmptyCart ELSE getCartFromSession(storage)
  /\ view = [user |-> user, cart |-> cart]
  /\ lastOp = [before |-> cart, op |-> "mount"]
  /\ backend = [items |-> <<>>, subtotal |-> 0]
  /\ calls = [slot \in Slots |-> Idle]
  /\ breakdown = NoBreakdown

Next ==
  \/ (\E product \in Catalogue, quantity \in Quantities : addToCart(product, quantity)) /\ Rendered
  \/ (\E id \in Ids : removeFromCart(id)) /\ Rendered
  \/ (\E id \in Ids, newQuantity \in NewQuantities : updateQuantity(id, newQuantity)) /\ Rendered
  \/ clearCart /\ Rendered
  \/ mount /\ Rendered
  \/ (\E product \in Catalogue, quantity \in Quantities : addToCart_s(product, quantity)) /\ Rendered
  \/ (\E id \in Ids : removeFromCart_s(id)) /\ Rendered
  \/ (\E id \in Ids, newQuantity \in NewQuantities : updateQuantity_s(id, newQuantity)) /\ Rendered
  \/ clearCart_s /\ Rendered
  \/ mount_s /\ Rendered

Spec == Init /\ [][Next]_vars

\* the same providers, handed the products of the worked scenarios
NextGolden ==
  \/ (\E product \in GoldenCatalogue, quantity \in GoldenQuantities : addToCart(product, quantity)) /\ Rendered
  \/ (\E id \in ProductIds : removeFromCart(id)) /\ Rendered
  \/ (\E id \in ProductIds, newQuantity \in GoldenQuantities : updateQuantity(id, newQuantity)) /\ Rendered
  \/ clearCart /\ Rendered
  \/ mount /\ Rendered
  \/ (\E product \in GoldenCatalogue, quantity \in GoldenQuantities : addToCart_s(product, quantity)) /\ Rendered
  \/ (\E id \in ProductIds : removeFromCart_s(id)) /\ Rendered
  \/ (\E id \in ProductIds, newQuantity \in GoldenQuantities : updateQuantity_s(id, newQuantity)) /\ Rendered
  \/ clearCart_s /\ Rendered
  \/ mount_s /\ Rendered

SpecGolden == Init /\ [][NextGolden]_vars

\* A handler that returns without a re-render: the provider's functions stay
\* the closures of the last render, over its cart and user.
Batched ==
  /\ view' = view
  /\ UNCHANGED <<backend, calls, breakdown>>
  /\ Elsewhere

\* React re-renders the provider with the state last set: new closures
Render ==
  /\ view # [user |-> user, cart |-> cart]
  /\ view' = [user |-> user, cart |-> cart]
  /\ UNCHANGED <<provider, user, cart, storage, lastOp, backend, calls, breakdown>>
  /\ Elsewhere

\* the products and quantities of calls made in quick succession
BatchCatalogue == {product \in Catalogue : productStockOf(product) >= 1}
BatchQuantities == {1}

\* calls of one event, run before React renders again
NextBatch ==
  \/ (\E product \in BatchCatalogue, quantity \in BatchQuantities : addToCart(product, quantity)) /\ Batched
  \/ (\E id \in ProductIds : removeFromCart(id)) /\ Batched
  \/ (\E id \in ProductIds, newQuantity \in Quantities : updateQuantity(id, newQuantity)) /\ Batched
  \/ (\E product \in BatchCatalogue, quantity \in BatchQuantities : addToCart_s(product, quantity)) /\ Batched
  \/ (\E id \in ProductIds : removeFromCart_s(id)) /\ Batched
  \/ (\E id \in ProductIds, newQuantity \in Quantities : updateQuantity_s(id, newQuantity)) /\ Batched
  \/ Render

SpecBatch == Init /\ [][NextBatch]_vars

\* the per-user provider across logins and logouts; an event handler may run
\* between a render with another user and the effect that render scheduled
NextUsers ==
  \/ (\E product \in BatchCatalogue, quantity \in BatchQuantities : addToCart(product, quantity)) /\ Rendered
  \/ (\E id \in ProductIds : removeFromCart(id)) /\ Rendered
  \/ (\E id \in ProductIds, newQuantity \in BatchQuantities : updateQuantity(id, newQuantity)) /\ Rendered
  \/ clearCart /\ Rendered
  \/ \E u \in Users \cup {NoUser} : authChanges(u)
  \/ userEffect

SpecUsers == Init /\ [][NextUsers]_vars

\* the cart page, mounted under the per-user provider it imports or under
\* the backend provider, whose value has a checkout
InitPage ==
  /\ NoPages
  /\ provider \in {"user", "backend"}
  /\ user \in IF provider = "user" THEN Users \cup {NoUser} ELSE {NoUser}
  /\ storage = [k \in Keys |-> <<>>]
  /\ cart = IF provider = "user" THEN getEmptyCart ELSE emptyCart_b
  /\ view = [user |-> user, cart |-> cart]
  /\ lastOp = [before |-> cart, op |-> "mount", step |-> "resolved"]
  /\ \E product \in BackendCatalogue, quantity \in BackendQuantities :
       backend = IF provider = "user" THEN apiCart(<<>>)
                 ELSE apiCart(<<[productId |-> product.id, quantity |-> quantity, price |-> product.price]>>)
  /\ calls = [slot \in Slots |-> Idle]
  /\ breakdown = NoBreakdown

NextPage ==
  \/ (\E product \in BatchCatalogue, quantity \in BatchQuantities : addToCart(product, quantity)) /\ Rendered
  \/ \E i \in LineIndexes : pressMinus(i)
  \/ \E i \in LineIndexes : pressPlus(i)
  \/ \E i \in LineIndexes : pressRemove(i)
  \/ \E slot \in Slots : handleCheckout(slot)
  \/ \E slot \in Slots : handleCheckoutSucceeded(slot)
  \/ \E slot \in Slots : handleCheckoutFailed(slot)
  \/ \E slot \in Slots : fetchCart(slot) /\ Elsewhere
  \/ \E slot \in Slots : apiResponds(slot) /\ Elsewhere
  \/ \E slot \in Slots : apiRespondsGetCart(slot) /\ Elsewhere
  \/ \E slot \in Slots : apiFails(slot) /\ Elsewhere
  \/ \E slot \in Slots : setCartFromBackend(slot) /\ Elsewhere
  \/ \E slot \in Slots : getCartFailed(slot) /\ Elsewhere

SpecPage == InitPage /\ [][NextPage]_vars

\* a request sent is answered or fails, and a handler whose await has settled
\* goes on
FairSpecPage ==
  /\ SpecPage
  /\ WF_vars(\E slot \in Slots : (apiResponds(slot) \/ apiFails(slot)) /\ Elsewhere)
  /\ WF_vars(\E slot \in Slots : handleCheckoutSucceeded(slot))
  /\ WF_vars(\E slot \in Slots : handleCheckoutFailed(slot))

\* the Receive Purchases page
NextPurchases ==
  \/ fetchPendingPurchases
  \/ \E r \in requests : fetchSettles(r)
  \/ \E purchase \in PurchaseIds : handleViewDetails(purchase)
  \/ \E type \in ActionTypes, purchase \in PurchaseIds : handleAction(type, purchase)
  \/ closeModal
  \/ confirmAction
  \/ \E r \in requests : confirmActionSucceeds(r)
  \/ \E r \in requests : confirmActionFails(r)

SpecPurchases == Init /\ [][NextPurchases]_vars

\* the cart service's tax breakdown, for every whole-cent subtotal
InitTax ==
  /\ NoPages
  /\ provider = "backend"
  /\ user = NoUser
  /\ storage = [k \in Keys |-> <<>>]
  /\ cart = [items |-> <<>>, subtotal |-> 0, discount |-> 0, tax |-> 0, total |-> 0]
  /\ view = [user |-> user, cart |-> cart]
  /\ lastOp = [before |-> cart, op |-> "mount"]
  /\ backend = [items |-> <<>>, subtotal |-> 0]
  /\ calls = [slot \in Slots |-> Idle]
  /\ \E subtotal \in Subtotals : breakdown = [NoBreakdown EXCEPT !.subtotal = subtotal]

NextTax ==
  \/ callTransformCartData /\ Elsewhere
  \/ callCalculateTaxBreakdown /\ Elsewhere

SpecTax == InitTax /\ [][NextTax]_vars

\* the backend provider, mounted over a cart the API may already hold
InitBackend ==
  /\ NoPages
  /\ provider = "backend"
  /\ user = NoUser
  /\ storage = [k \in Keys |-> <<>>]
  /\ cart = emptyCart_b
  /\ view = [user |-> user, cart |-> cart]
  /\ lastOp = [before |-> cart, op |-> "mount", step |-> "resolved"]
  /\ \E product \in BackendCatalogue, quantity \in {0} \cup BackendQuantities :
       backend = apiCart(IF quantity = 0 THEN <<>>
                         ELSE <<[productId |-> product.id, quantity |-> quantity, price |-> product.price]>>)
  /\ calls = [slot \in Slots |-> Idle]
  /\ breakdown = NoBreakdown

NextBackend ==
  \/ \E slot \in Slots : fetchCart(slot) /\ Elsewhere
  \/ \E slot \in Slots, product \in BackendCatalogue, quantity \in BackendQuantities :
       addToCart_b(slot, product, quantity) /\ Elsewhere
  \/ \E slot \in Slots, productId \in BackendIds, newQuantity \in BackendQuantities :
       updateQuantity_b(slot, productId, newQuantity) /\ Elsewhere
  \/ \E slot \in Slots, productId \in BackendIds : removeFromCart_b(slot, productId) /\ Elsewhere
  \/ \E slot \in Slots : checkout_b(slot) /\ Elsewhere
  \/ applyDiscount /\ Elsewhere
  \/ \E slot \in Slots : apiResponds(slot) /\ Elsewhere
  \/ \E slot \in Slots : apiRespondsGetCart(slot) /\ Elsewhere
  \/ \E slot \in Slots : apiFails(slot) /\ Elsewhere
  \/ \E slot \in Slots : syncWithBackend(slot) /\ Elsewhere
  \/ \E slot \in Slots : setCartFromBackend(slot) /\ Elsewhere
  \/ \E slot \in Slots : getCartFailed(slot) /\ Elsewhere
  \/ \E slot \in Slots : rethrows(slot) /\ Elsewhere
  \/ \E slot \in Slots : checkoutReturns(slot) /\ Elsewhere

SpecBackend == InitBackend /\ [][NextBackend]_vars

----------------------------------------------------------------------------
(* Properties *)

\* the call that was made last, and the cart its handler read
Before == lastOp.before
AddCalled == lastOp.op = "addToCart"

HasLine(c, id) == Find(c.items, id) # <<>>
LineOf(c, id) == Find(c.items, id)[1]
LinesOf(c, id) == {i \in DOMAIN c.items : c.items[i].id = id}

\* availableStock of the specification: the product's stock, 0 when missing
AvailableStock(product) ==
  IF product.quantity_in_stock = Undefined THEN 0 ELSE product.quantity_in_stock[1]

\* the totals the mounted provider computes for a list of items
ProviderTotals(items) ==
  IF provider = "user" THEN calculateCartTotals(items) ELSE calculateCartTotals_s(items)

\* exact sums of the specification's computeTotals, in units
ExactSubtotal(items) == Sum([i \in DOMAIN items |-> items[i].price * items[i].quantity])
ExactDiscount(items) == Sum([i \in DOMAIN items |-> items[i].discountAmount * items[i].quantity])
ExactTaxable(items) == ExactSubtotal(items) - ExactDiscount(items)

\* C1: addToCart of a product that has no line yet, with a quantity above the
\* product's available stock, leaves the cart (items and totals) unchanged.
C1_StockGuardNewLine ==
  ( /\ AddCalled
    /\ ~HasLine(Before, lastOp.product.id)
    /\ lastOp.quantity > AvailableStock(lastOp.product) )
  => cart = Before

\* C2: when the product has a line and existing.quantity + quantity exceeds
\* the available stock, addToCart changes nothing: every line (quantity,
\* discountPercentage, discountAmount) and all totals are as before.
C2_MergeRejectionAllOrNothing ==
  ( /\ AddCalled
    /\ HasLine(Before, lastOp.product.id)
    /\ LineOf(Before, lastOp.product.id).quantity + lastOp.quantity > AvailableStock(lastOp.product) )
  => cart = Before

\* a merge was rejected for stock although the product is in stock, with
\* another line in the cart
C2_Witness ==
  /\ AddCalled
  /\ HasLine(Before, lastOp.product.id)
  /\ AvailableStock(lastOp.product) >= 1
  /\ lastOp.quantity >= 1
  /\ LineOf(Before, lastOp.product.id).quantity <= AvailableStock(lastOp.product)
  /\ LineOf(Before, lastOp.product.id).quantity + lastOp.quantity > AvailableStock(lastOp.product)
  /\ Len(Before.items) = 2
  /\ cart = Before

\* C3: adding a product that already has a line, the summed quantity not
\* exceeding the available stock, merges: the number of lines is unchanged and
\* the product's single line has quantity = previous quantity + added quantity.
C3_MergeAddsQuantities ==
  ( /\ AddCalled
    /\ HasLine(Before, lastOp.product.id)
    /\ LineOf(Before, lastOp.product.id).quantity + lastOp.quantity <= AvailableStock(lastOp.product) )
  => /\ Len(cart.items) = Len(Before.items)
     /\ Cardinality(LinesOf(cart, lastOp.product.id)) = 1
     /\ LineOf(cart, lastOp.product.id).quantity
          = LineOf(Before, lastOp.product.id).quantity + lastOp.quantity

\* a line of quantity >= 1 took a further positive quantity
C3_Witness ==
  /\ AddCalled
  /\ HasLine(Before, lastOp.product.id)
  /\ LineOf(Before, lastOp.product.id).quantity >= 1
  /\ lastOp.quantity >= 1
  /\ LineOf(Before, lastOp.product.id).quantity + lastOp.quantity <= AvailableStock(lastOp.product)
  /\ LineOf(cart, lastOp.product.id).quantity > LineOf(Before, lastOp.product.id).quantity

\* C4: no two line items of cart.items have the same product id.
C4_UniqueProductIds ==
  \A i, j \in DOMAIN cart.items : i # j => cart.items[i].id # cart.items[j].id

\* a product that already had a line was added again, next to another line
C4_Witness ==
  /\ AddCalled
  /\ HasLine(Before, lastOp.product.id)
  /\ cart # Before
  /\ Len(cart.items) = 2

\* C5: every line item of the cart has quantity >= 1.
C5_QuantityAtLeastOne ==
  \A i \in DOMAIN cart.items : cart.items[i].quantity >= 1

\* C6: the stored subtotal, discount, tax and total are those that
\* calculateCartTotals gives for the current cart.items.
C6_TotalsDerivedFromItems ==
  \A k \in {"subtotal", "discount", "tax", "total"} : cart[k] = ProviderTotals(cart.items)[k]

\* a cart with a discounted line was loaded again from session storage
C6_Witness ==
  /\ lastOp.op \in {"mount", "userChanges"}
  /\ cart.items # <<>>
  /\ cart.discount > 0
  /\ cart # Before

\* C7: each line item has discountAmount = price * discountPercentage / 100
\* (0 when discountPercentage is absent), from the line's own price.
C7_DiscountSync ==
  \A i \in DOMAIN cart.items :
    cart.items[i].discountAmount * 100
      = cart.items[i].price * OrZero(Get(cart.items[i], "discountPercentage"))

\* C8: the reported subtotal is the sum over the items of price * quantity,
\* before any discount, rounded to 2 decimal places.
C8_SubtotalIsSumOfLines ==
  cart.subtotal = toFixed2(ExactSubtotal(cart.items), 1)

\* C9: for a non-empty item list the reported totals satisfy
\* subtotal >= discount >= 0.
C9_SubtotalCoversDiscount ==
  cart.items # <<>> => (cart.subtotal >= cart.discount /\ cart.discount >= 0)

\* C10 as stated: the reported total equals taxableAmount + reported tax,
\* with taxableAmount = subtotal - discountTotal taken exactly or as displayed.
C10_TotalIsTaxablePlusTax ==
  \/ cart.total = ExactTaxable(cart.items) + cart.tax
  \/ cart.total = toFixed2(ExactSubtotal(cart.items), 1)
                    - toFixed2(ExactDiscount(cart.items), 1) + cart.tax

\* C10 amended: the reported total is taxableAmount * 1.16 rounded to 2 places
\* on its own; it equals taxableAmount + reported tax whenever taxableAmount
\* is a whole number of cents.
C10_TotalRoundedOnce ==
  /\ cart.total = toFixed2(ExactTaxable(cart.items) * (100 + TAX_RATE_PCT), 100)
  /\ ExactTaxable(cart.items) % 100 = 0
       => cart.total = ExactTaxable(cart.items) + cart.tax

\* a discounted cart whose taxable amount is a whole number of cents
C10_Witness ==
  /\ cart.items # <<>>
  /\ ExactDiscount(cart.items) > 0
  /\ ExactTaxable(cart.items) > 0
  /\ ExactTaxable(cart.items) % 100 = 0
  /\ cart.tax > 0

\* the four totals of a cart are those the mounted provider computes for items
TotalsOf(c, items) ==
  \A k \in {"subtotal", "discount", "tax", "total"} : c[k] = ProviderTotals(items)[k]

\* items without the line at index k
WithoutIndex(items, k) == SubSeq(items, 1, k - 1) \o SubSeq(items, k + 1, Len(items))

\* items without the (single) line of id, the other lines in their order
WithoutLine(items, id) ==
  LET hits == {i \in DOMAIN items : items[i].id = id}
  IN IF hits = {} THEN items ELSE WithoutIndex(items, CHOOSE i \in hits : TRUE)

\* C11: adding a product of price 100 and discountPercentage 10 at quantity 2
\* (stock sufficient) to an empty cart gives a line of discountAmount 10 and
\* subtotal 200, discount 20, tax 28.80, total 208.80.
C11_GoldenScenario ==
  ( /\ AddCalled
    /\ Before.items = <<>>
    /\ lastOp.product.price = 100 * Unit
    /\ lastOp.product.discountPercentage = <<10>>
    /\ lastOp.quantity = 2
    /\ AvailableStock(lastOp.product) >= 2 )
  => /\ Len(cart.items) = 1
     /\ cart.items[1].discountAmount = 10 * Unit
     /\ cart.subtotal = 200 * Unit
     /\ cart.discount = 20 * Unit
     /\ cart.tax = 28 * Unit + 80 * (Unit \div 100)
     /\ cart.total = 208 * Unit + 80 * (Unit \div 100)

\* C12: updateQuantity(id, n) with n < 1 gives the cart removeFromCart(id)
\* gives: the items without the line of id, and their totals.
C12_UpdateBelowOneRemoves ==
  ( /\ lastOp.op = "updateQuantity"
    /\ lastOp.quantity < 1 )
  => /\ cart.items = WithoutLine(Before.items, lastOp.id)
     /\ TotalsOf(cart, cart.items)

\* updateQuantity(id, n), n < 1, removed the line of id from a cart of two lines
C12_Witness ==
  /\ lastOp.op = "updateQuantity"
  /\ lastOp.quantity < 1
  /\ HasLine(Before, lastOp.id)
  /\ Len(Before.items) = 2
  /\ Len(cart.items) = 1

\* C13: addToCart with available stock below 1, a missing stock value
\* included, leaves items and totals unchanged, line or no line.
C13_NoStockNoChange ==
  ( /\ AddCalled
    /\ AvailableStock(lastOp.product) < 1 )
  => cart = Before

\* a product without a stock value was added, at a positive quantity, to a
\* cart that has no line for it
C13_Witness ==
  /\ AddCalled
  /\ lastOp.product.quantity_in_stock = Undefined
  /\ lastOp.quantity >= 1
  /\ ~HasLine(Before, lastOp.product.id)
  /\ Before.items # <<>>
  /\ cart = Before

\* C14: removeFromCart deletes exactly the line of a present id, the other
\* lines and their order unchanged; leaves the list unchanged for an absent
\* id; the totals are those of the resulting items.
C14_RemoveExactlyThatLine ==
  lastOp.op = "removeFromCart"
  => /\ cart.items = WithoutLine(Before.items, lastOp.id)
     /\ ~HasLine(cart, lastOp.id)
     /\ ~HasLine(Before, lastOp.id) => cart.items = Before.items
     /\ TotalsOf(cart, cart.items)

\* the second of two lines was removed
C14_Witness ==
  /\ lastOp.op = "removeFromCart"
  /\ Len(Before.items) = 2
  /\ Before.items[2].id = lastOp.id
  /\ cart.items = <<Before.items[1]>>

\* C15: clearCart yields a cart with no items and subtotal, discount, tax and
\* total 0, the totals calculateCartTotals gives for no items.
C15_ClearGivesEmptyCart ==
  lastOp.op = "clearCart"
  => /\ cart.items = <<>>
     /\ \A k \in {"subtotal", "discount", "tax", "total"} : cart[k] = 0
     /\ TotalsOf(cart, <<>>)

\* a cart with a positive total was cleared
C15_Witness ==
  /\ lastOp.op = "clearCart"
  /\ Before.items # <<>>
  /\ Before.total > 0
  /\ cart.items = <<>>

\* C17: addToCart with a non-positive quantity or a negative unit price leaves
\* items and totals unchanged.
C17_InvalidInputNoChange ==
  ( /\ AddCalled
    /\ \/ lastOp.quantity <= 0
       \/ lastOp.product.price < 0 )
  => cart = Before

\* C19: for every item list the per-user provider and the session provider
\* report the same subtotal, discount, tax and total.
C19_ProvidersAgree ==
  \A k \in {"subtotal", "discount", "tax", "total"} :
    calculateCartTotals(cart.items)[k] = calculateCartTotals_s(cart.items)[k]

\* C16: calls issued in quick succession are applied one at a time, each to
\* the cart the previous call produced: the cart a call reads is the
\* provider's latest cart, also when no re-render came in between.
C16_NoLostUpdates ==
  [][lastOp' # lastOp => lastOp'.before = cart]_vars

\* C20: for a tax-inclusive subtotal in whole cents, transformCartData and
\* calculateTaxBreakdown return total = subtotal, preTaxAmount = subtotal /
\* 1.16 and taxAmount = subtotal - subtotal / 1.16 each rounded to the cent,
\* and preTaxAmount + taxAmount = subtotal.
C20_TaxInclusiveBreakdown ==
  breakdown.of # "none"
  => LET r     == breakdown.result[1]
         s     == breakdown.subtotal
         cent  == Unit \div 100
         Abs(x) == IF x < 0 THEN -x ELSE x
     IN /\ r.total = s
        /\ r.preTaxAmount % cent = 0
        /\ r.taxAmount % cent = 0
        \* nearest cent to s / 1.16, and to s - s / 1.16 = s * 0.16 / 1.16
        /\ 2 * Abs((100 + TAX_RATE) * r.preTaxAmount - 100 * s) <= (100 + TAX_RATE) * cent
        /\ 2 * Abs((100 + TAX_RATE) * r.taxAmount - TAX_RATE * s) <= (100 + TAX_RATE) * cent
        /\ r.preTaxAmount + r.taxAmount = s

\* both parts of a breakdown were rounded: 1.00 gives 0.86 and 0.14
C20_Witness ==
  /\ breakdown.of = "transformCartData"
  /\ breakdown.subtotal = Unit
  /\ breakdown.result[1].preTaxAmount = 86 * (Unit \div 100)
  /\ breakdown.result[1].taxAmount = 14 * (Unit \div 100)

\* C18: when checkout completes successfully the cart has no items and
\* subtotal, discount, tax and total 0; no other step of checkout (the
\* call, a failed request) changes the cart.
C18_ClearedOnSuccessfulCheckout ==
  lastOp.op = "checkout"
  => IF lastOp.step = "resolved"
       THEN /\ cart.items = <<>>
            /\ \A k \in {"subtotal", "discount", "tax", "total"} : cart[k] = 0
       ELSE cart = Before

\* a successful checkout cleared a cart that had items
C18_Witness ==
  /\ lastOp.op = "checkout"
  /\ lastOp.step = "resolved"
  /\ Before.items # <<>>
  /\ cart.items = <<>>

\* C21: updateQuantity(id, n) with n >= 1 changes only the quantity of the
\* line of id: same number of lines, that line in its place with its other
\* fields unchanged, every other line unchanged; nothing changes in the list
\* when id has no line.
C21_UpdateChangesOnlyQuantity ==
  ( /\ lastOp.op = "updateQuantity"
    /\ lastOp.quantity >= 1 )
  => /\ Len(cart.items) = Len(Before.items)
     /\ \A i \in DOMAIN Before.items :
          IF Before.items[i].id = lastOp.id
            THEN /\ DOMAIN cart.items[i] = DOMAIN Before.items[i]
                 /\ \A f \in DOMAIN Before.items[i] \ {"quantity"} :
                      cart.items[i][f] = Before.items[i][f]
            ELSE cart.items[i] = Before.items[i]
     /\ ~HasLine(Before, lastOp.id) => cart.items = Before.items

\* the second of two lines, one with a discount amount, got another quantity
C21_Witness ==
  /\ lastOp.op = "updateQuantity"
  /\ lastOp.quantity >= 1
  /\ Len(Before.items) = 2
  /\ Before.items[2].id = lastOp.id
  /\ Before.items[2].discountAmount > 0
  /\ Before.items[2].quantity # lastOp.quantity
  /\ cart.items[2].quantity = lastOp.quantity

\* C22: updateQuantity(id, n) with n >= 1 sets the quantity of the line of id
\* to n, whatever stock is recorded for the product: no stock check.
C22_UpdateIgnoresStock ==
  ( /\ lastOp.op = "updateQuantity"
    /\ lastOp.quantity >= 1
    /\ HasLine(Before, lastOp.id) )
  => /\ HasLine(cart, lastOp.id)
     /\ LineOf(cart, lastOp.id).quantity = lastOp.quantity

\* a line was given a quantity above the stock recorded for it, a quantity
\* addToCart refuses
C22_Witness ==
  /\ lastOp.op = "updateQuantity"
  /\ HasLine(Before, lastOp.id)
  /\ LineOf(Before, lastOp.id).stock # Undefined
  /\ lastOp.quantity > LineOf(Before, lastOp.id).stock[1]
  /\ LineOf(cart, lastOp.id).quantity > LineOf(cart, lastOp.id).stock[1]

\* C23: with unit prices >= 0 and discount percentages in 0..100, every
\* reachable cart reports tax >= 0 and total >= 0.
C23_NonNegativeTotals ==
  /\ cart.tax >= 0
  /\ cart.total >= 0

\* C24: in the per-user provider, while a user is logged in, after an
\* addToCart, removeFromCart, updateQuantity or clearCart that changed the
\* cart, the document stored under cart_<user.id> is the JSON text of the
\* cart in memory; without a user nothing is written to storage.
C24_StorageFollowsCart ==
  provider = "user"
  => /\ user = NoUser => \A k \in Keys : storage[k] = <<>>
     /\ ( /\ user # NoUser
          /\ lastOp.op \in {"addToCart", "removeFromCart", "updateQuantity", "clearCart"}
          /\ cart # Before )
        => storage[userCartKey(user)] = <<JSONstringify(cart)>>

\* a logged-in user's cart changed and was stored; the line's undefined
\* discountPercentage is in memory and not in the stored document
C24_Witness ==
  /\ provider = "user"
  /\ user # NoUser
  /\ AddCalled
  /\ cart # Before
  /\ Len(cart.items) = 2
  /\ \E i \in DOMAIN cart.items : cart.items[i].discountPercentage = Undefined
  /\ storage[userCartKey(user)] # <<>>
  /\ \E i \in DOMAIN cart.items :
       "discountPercentage" \notin DOMAIN storage[userCartKey(user)][1].items[i]

\* the product ids of the lines stored under cart_<u>
StoredIds(st, u) ==
  IF st[userCartKey(u)] = <<>> THEN {}
  ELSE {st[userCartKey(u)][1].items[i].id : i \in DOMAIN st[userCartKey(u)][1].items}

\* C25: the cart stored under cart_<u> is written only while u is the current
\* user, and a write puts there no line but those already stored for u and
\* the product being added: no line of another user's or of the anonymous
\* cart is copied in.
C25_PerUserIsolation ==
  [][\A u \in Users :
       storage'[userCartKey(u)] # storage[userCartKey(u)]
       => /\ user = u
          /\ StoredIds(storage', u) \subseteq
               StoredIds(storage, u) \cup
                 (IF lastOp'.op = "addToCart" THEN {lastOp'.product.id} ELSE {})]_vars

\* C26: in the backend provider, once every addToCart, updateQuantity and
\* removeFromCart issued has completed together with its getCart, the cart
\* shown is the cart of the backend (as getCart returns it), in whatever
\* order the responses of overlapping requests arrived.
C26_ConvergesToBackend ==
  ( /\ \A slot \in Slots : calls[slot] = Idle
    /\ lastOp.op \in {"addToCart", "updateQuantity", "removeFromCart"}
    /\ lastOp.step = "resolved" )
  => cart = transformCartData(backend)

\* C27: in the backend provider a handler whose request failed rethrows and
\* leaves the cart as it was; a handler whose getCart failed leaves the cart
\* as it was, too.
C27_FailureKeepsCart ==
  lastOp.op \in {"addToCart", "updateQuantity", "removeFromCart", "checkout"}
  => /\ lastOp.step = "rejected" => cart = Before
     /\ lastOp.step = "resolved, not synced" => cart = Before

\* the request of addToCart was served and its getCart failed: the cart shown
\* is the one from before, and no longer the backend's
C27_Witness ==
  /\ lastOp.op = "addToCart"
  /\ lastOp.step = "resolved, not synced"
  /\ cart = Before
  /\ cart.items # <<>>
  /\ cart.items # backend.items
  /\ \A slot \in Slots : calls[slot] = Idle

\* C28: every checkout attempt on the cart page ends with isCheckingOut =
\* FALSE, whether checkout succeeds, rejects or throws; checkoutError is null
\* from the start of an attempt, null after a successful one and not null
\* after a failed one.
C28_CheckoutAttemptEnds ==
  /\ [](isCheckingOut => checkoutError = Undefined)
  /\ [](lastOp.op = "checkout" =>
          /\ lastOp.step = "called" => isCheckingOut /\ checkoutError = Undefined
          /\ lastOp.step = "resolved" => ~isCheckingOut /\ checkoutError = Undefined
          /\ lastOp.step \in {"rejected", "threw"} => ~isCheckingOut /\ checkoutError # Undefined)
  /\ (isCheckingOut ~> ~isCheckingOut)

\* a checkout attempt on a cart with lines succeeded: not checking out, no error
C28_Witness ==
  /\ lastOp.op = "checkout"
  /\ lastOp.step = "resolved"
  /\ ~isCheckingOut
  /\ checkoutError = Undefined
  /\ Before.items # <<>>

\* C29: on the cart page under the per-user provider, + raises the quantity
\* of its line by 1, - lowers it by 1 and removes the line at quantity 1,
\* Remove deletes its line.
C29_PageButtons ==
  ( /\ provider = "user"
    /\ pressed.button # "none"
    /\ lastOp.op \in {"updateQuantity", "removeFromCart"} )
  => LET i == pressed.index
         line == Before.items[i]
     IN CASE pressed.button = "+" ->
               /\ Len(cart.items) = Len(Before.items)
               /\ cart.items[i].quantity = line.quantity + 1
          [] pressed.button = "-" ->
               IF line.quantity = 1
                 THEN cart.items = WithoutIndex(Before.items, i)
                 ELSE /\ Len(cart.items) = Len(Before.items)
                      /\ cart.items[i].quantity = line.quantity - 1
          [] pressed.button = "Remove" ->
               cart.items = WithoutIndex(Before.items, i)

\* C30: on the Receive Purchases page loading is TRUE whenever a request is
\* in flight, the refetch after a successful receive or cancel included.
C30_LoadingWhileInFlight ==
  requests # {} => loading

====
